---- MODULE Spec2Model ----
(***************************************************************************)
(* Model of the energy-regenerating multi-agent simulation                 *)
(* (multi-agent-simulation/vector2d.py, boundary.py, agent.py,             *)
(* simulation.py) and of the simpler agent that stops for good (agent.py). *)
(*                                                                         *)
(* Numbers.  The program computes with Python floats.  The model computes  *)
(* on a fixed-point grid: the real r is the integer r * Unit, products are *)
(* rounded toward zero, and the float range is scaled down: a component    *)
(* whose square leaves the range makes magnitude() raise OverflowError,    *)
(* as Python's float ** does.                                              *)
(***************************************************************************)
EXTENDS Integers, Sequences, FiniteSets, TLC

\* ------------------------------------------------------------------------
\* Fixed-point arithmetic
\* ------------------------------------------------------------------------
Unit == 100                 \* the real 1.0
SqrtFloatMax == 30000       \* largest |x| for which x**2 is still a float
MaxCalls == 5               \* cap on the number of calls a client makes
MaxSteps == 4               \* cap on the number of Simulation steps

Abs(a) == IF a < 0 THEN -a ELSE a
Min(a, b) == IF a <= b THEN a ELSE b
Max(a, b) == IF a >= b THEN a ELSE b

\* a * b on the grid, rounded toward zero
Mul(a, b) ==
    IF (a < 0) = (b < 0) THEN (Abs(a) * Abs(b)) \div Unit
                         ELSE -((Abs(a) * Abs(b)) \div Unit)

\* a / b on the grid, rounded toward zero (b # 0)
Div(a, b) ==
    IF (a < 0) = (b < 0) THEN (Abs(a) * Unit) \div Abs(b)
                         ELSE -((Abs(a) * Unit) \div Abs(b))

\* floor of the square root of n, by bisection on [lo, hi]
RECURSIVE SqrtBisect(_, _, _)
SqrtBisect(n, lo, hi) ==
    IF lo >= hi THEN lo
    ELSE LET mid == (lo + hi + 1) \div 2
         IN IF mid * mid <= n THEN SqrtBisect(n, mid, hi)
                              ELSE SqrtBisect(n, lo, mid - 1)

Sqrt(n) == SqrtBisect(n, 0, 46340)

\* exp(p) for p >= 0 as the sum of its Taylor series, on a grid 100 times
\* finer than Unit; term is p^k / k!
ExpScale == 10000
RECURSIVE ExpSeries(_, _, _)
ExpSeries(p, k, term) ==
    IF term = 0 THEN 0
    ELSE term + ExpSeries(p, k + 1, (term * p) \div (k * Unit))

\* np.exp(-p) for p >= 0
ExpNeg(p) == ((ExpScale * ExpScale) \div ExpSeries(p, 1, ExpScale)) \div (ExpScale \div Unit)

\* ------------------------------------------------------------------------
\* vector2d.py
\* ------------------------------------------------------------------------
Vector2D(x, y) == [x |-> x, y |-> y]

\* the Python int 0, which is not a Vector2D
IntZero == [int |-> 0]

IsVector2D(v) == DOMAIN v = {"x", "y"}

add(v, w) == Vector2D(v.x + w.x, v.y + w.y)
sub(v, w) == Vector2D(v.x - w.x, v.y - w.y)
mul(v, scalar) == Vector2D(Mul(v.x, scalar), Mul(v.y, scalar))

\* x**2 raises OverflowError when the square is not a float
Overflows(v) == Abs(v.x) > SqrtFloatMax \/ Abs(v.y) > SqrtFloatMax

magnitude(v) == Sqrt(v.x * v.x + v.y * v.y)

\* the quotient keeps the precision of a float for short vectors too: a
\* vector within 3.0 is taken with two more digits
normalize(v) ==
    LET finer == IF Abs(v.x) <= 3 * Unit /\ Abs(v.y) <= 3 * Unit
                 THEN Unit ELSE 1
        mag == magnitude(Vector2D(v.x * finer, v.y * finer))
    IN IF mag = 0 THEN Vector2D(0, 0)
       ELSE Vector2D(Div(v.x * finer, mag), Div(v.y * finer, mag))

\* v.normalize() as a call: the operand afterwards, what is returned, and
\* the exception magnitude() may raise
Vector2D_normalize(v) ==
    IF Overflows(v)
    THEN [self |-> v, result |-> IntZero, raised |-> "OverflowError"]
    ELSE [self |-> v, result |-> normalize(v), raised |-> "none"]

distance_to(v, w) == magnitude(sub(v, w))

dot(v, w) == Mul(v.x, w.x) + Mul(v.y, w.y)

\* rotate by an angle given by its cosine and sine
rotate(v, cos_a, sin_a) ==
    Vector2D(Mul(v.x, cos_a) - Mul(v.y, sin_a),
             Mul(v.x, sin_a) + Mul(v.y, cos_a))

\* math.pi / 2: cos is 6e-17, zero on the grid
HalfPi_clockwise == [cos |-> 0, sin |-> -Unit]
HalfPi == [cos |-> 0, sin |-> Unit]

\* random.uniform(0, 2 * math.pi): the angles drawn, as (cos, sin)
Angles == { [cos |-> 0, sin |-> Unit], [cos |-> 60, sin |-> 80] }

\* add_randomness(std_dev): the pairs of random.gauss(0, std_dev) drawn
Gauss(std_dev) == { Vector2D(-std_dev, std_dev), Vector2D(std_dev, 0) }

\* ------------------------------------------------------------------------
\* boundary.py
\* ------------------------------------------------------------------------
Boundary(width, height) ==
    [width |-> width, height |-> height,
     min_x |-> 0, max_x |-> width, min_y |-> 0, max_y |-> height]

is_within_bounds_exclusive(b, position) ==
    /\ b.min_x < position.x /\ position.x < b.max_x
    /\ b.min_y < position.y /\ position.y < b.max_y
is_within_bounds(b, position) ==
    /\ b.min_x <= position.x /\ position.x <= b.max_x
    /\ b.min_y <= position.y /\ position.y <= b.max_y

is_near_boundary_by_distance(b, position, threshold) ==
    \/ Abs(position.x - b.min_x) <= threshold
    \/ Abs(position.x - b.max_x) <= threshold
    \/ Abs(position.y - b.min_y) <= threshold
    \/ Abs(position.y - b.max_y) <= threshold
is_near_boundary(b, position, threshold) ==
    \/ position.x <= b.min_x + threshold
    \/ position.x >= b.max_x - threshold
    \/ position.y <= b.min_y + threshold
    \/ position.y >= b.max_y - threshold

dist_left(b, position) == Abs(position.x - b.min_x)
dist_right(b, position) == Abs(position.x - b.max_x)
dist_bottom(b, position) == Abs(position.y - b.min_y)
dist_top(b, position) == Abs(position.y - b.max_y)

min_dist(b, position) ==
    Min(Min(dist_left(b, position), dist_right(b, position)),
        Min(dist_bottom(b, position), dist_top(b, position)))

get_tangent_at_point_horizontal_first(b, position) ==
    IF \/ min_dist(b, position) = dist_bottom(b, position)
       \/ min_dist(b, position) = dist_top(b, position)
    THEN Vector2D(Unit, 0)
    ELSE Vector2D(0, Unit)
get_tangent_at_point(b, position) ==
    IF \/ min_dist(b, position) = dist_left(b, position)
       \/ min_dist(b, position) = dist_right(b, position)
    THEN Vector2D(0, Unit)
    ELSE Vector2D(Unit, 0)

get_normal_at_point_right_first(b, position) ==
    IF min_dist(b, position) = dist_right(b, position) THEN Vector2D(-Unit, 0)
    ELSE IF min_dist(b, position) = dist_left(b, position) THEN Vector2D(Unit, 0)
    ELSE IF min_dist(b, position) = dist_bottom(b, position) THEN Vector2D(0, Unit)
    ELSE Vector2D(0, -Unit)
get_normal_at_point(b, position) ==
    IF min_dist(b, position) = dist_left(b, position) THEN Vector2D(Unit, 0)
    ELSE IF min_dist(b, position) = dist_right(b, position) THEN Vector2D(-Unit, 0)
    ELSE IF min_dist(b, position) = dist_bottom(b, position) THEN Vector2D(0, Unit)
    ELSE Vector2D(0, -Unit)

clamp_position_x_only(b, position) ==
    Vector2D(Max(b.min_x, Min(position.x, b.max_x)), position.y)
clamp_position(b, position) ==
    Vector2D(Max(b.min_x, Min(position.x, b.max_x)),
             Max(b.min_y, Min(position.y, b.max_y)))

\* ------------------------------------------------------------------------
\* agent.py
\* ------------------------------------------------------------------------
StopSpeed == 100            \* "magnitude() < 1"
ResumeChance == 30          \* "uniform(0, 1) < 0.3"
buffer == 1500              \* "buffer = 15.0"
Push == 200                 \* "normal * 2.0"
DefaultRadius == 500        \* agent_radius=5.0
DefaultDecay == 10          \* nrg_decay=0.1
DefaultGain == 1            \* nrg_gain=0.01

\* the outcome of a method call: the object afterwards and the exception
\* that left the call, if any
Returned(a) == [agent |-> a, raised |-> "none"]
Raised(a, e) == [agent |-> a, raised |-> e]

Agent__init__(position, velocity, energy, agent_radius, nrg_decay, nrg_gain) ==
    [position |-> position,
     velocity |-> velocity,
     energy |-> energy,
     radius |-> agent_radius,
     nrg_decay |-> nrg_decay,
     nrg_gain |-> nrg_gain,
     is_moving |-> TRUE,
     movement_time |-> 0,
     base_speed |-> magnitude(velocity),
     max_energy |-> energy]

\* a slip: every agent is taken as able to move
can_move_always(a) == TRUE
can_move(a) == a.is_moving

\* energy *= exp(-nrg_decay * delta_time)
DecayedEnergy(a, delta_time) ==
    Mul(a.energy, ExpNeg(Mul(a.nrg_decay, delta_time)))

\* velocity = velocity * energy
RescaledVelocity(a, energy) == mul(a.velocity, energy)

\* a slip: only the x component is compared with the threshold
TooSlow_x_only(v) == Abs(v.x) < StopSpeed

\* velocity.magnitude() < 1
TooSlow(v) == magnitude(v) < StopSpeed

\* a slip: the clamp to max_energy is missing
RegainedEnergy_unclamped(a) == a.energy + Mul(a.nrg_gain, a.max_energy)

\* energy += nrg_gain * max_energy; energy = min(energy, max_energy)
RegainedEnergy(a) ==
    Min(a.energy + Mul(a.nrg_gain, a.max_energy), a.max_energy)

\* the draw is made only when the left operand of "and" is true
DrawIsMade(a) == ~a.is_moving /\ RegainedEnergy(a) = a.max_energy

\* a slip: the agent may resume before its energy is restored
ShouldResume_any_energy(a, energy, draw) == draw < ResumeChance

\* (energy == max_energy) and (uniform(0, 1) < 0.3)
ShouldResume(a, energy, draw) == energy = a.max_energy /\ draw < ResumeChance

\* a slip: the direction is not scaled to base_speed
ReseededVelocity_unscaled(a, angle) == Vector2D(angle.cos, angle.sin)
\* Vector2D(cos(angle) * base_speed, sin(angle) * base_speed)
ReseededVelocity(a, angle) ==
    Vector2D(Mul(angle.cos, a.base_speed), Mul(angle.sin, a.base_speed))

Agent_energy_update(a, delta_time, draw, angle) ==
    IF a.is_moving
    THEN LET e == DecayedEnergy(a, delta_time)
             v == RescaledVelocity(a, e)
             scaled == [a EXCEPT !.energy = e, !.velocity = v]
         IN IF Overflows(v) THEN Raised(scaled, "OverflowError")
            ELSE IF TooSlow(v)
                 THEN Returned([scaled EXCEPT !.velocity = IntZero,
                                              !.is_moving = FALSE])
                 ELSE Returned(scaled)
    ELSE LET e == RegainedEnergy(a)
             rested == [a EXCEPT !.energy = e]
         IN IF ShouldResume(a, e, draw)
            THEN Returned([rested EXCEPT !.is_moving = TRUE,
                                         !.velocity = ReseededVelocity(a, angle)])
            ELSE Returned(rested)

\* position after integration; noise is added to a copy of the velocity
IntegratedPosition(a, delta_time, std_dev, noise) ==
    IF std_dev > 0
    THEN add(a.position, mul(add(a.velocity, noise), delta_time))
    ELSE add(a.position, mul(a.velocity, delta_time))

\* a slip: movement_time accumulates in either state
Agent_update_always_timed(a, delta_time, std_dev, noise, draw, angle) ==
    IF a.is_moving
    THEN Agent_energy_update(
             [a EXCEPT !.position = IntegratedPosition(a, delta_time, std_dev, noise),
                       !.movement_time = a.movement_time + delta_time],
             delta_time, draw, angle)
    ELSE Agent_energy_update(
             [a EXCEPT !.movement_time = a.movement_time + delta_time],
             delta_time, draw, angle)

\* a slip: the noise is added to the agent's own velocity, not to a copy
Integrated_in_place(a, delta_time, std_dev, noise) ==
    [a EXCEPT !.position = IntegratedPosition(a, delta_time, std_dev, noise),
              !.velocity = IF std_dev > 0 THEN add(a.velocity, noise)
                                          ELSE a.velocity,
              !.movement_time = a.movement_time + delta_time]
\* the agent after the integration and "movement_time += delta_time"
Integrated(a, delta_time, std_dev, noise) ==
    [a EXCEPT !.position = IntegratedPosition(a, delta_time, std_dev, noise),
              !.movement_time = a.movement_time + delta_time]

Agent_update(a, delta_time, std_dev, noise, draw, angle) ==
    IF a.is_moving
    THEN Agent_energy_update(Integrated(a, delta_time, std_dev, noise),
                             delta_time, draw, angle)
    ELSE Agent_energy_update(a, delta_time, draw, angle)

detect_collision_exclusive(a, other_agent, radius) ==
    distance_to(a.position, other_agent.position) < radius
detect_collision(a, other_agent, radius) ==
    distance_to(a.position, other_agent.position) <= radius

\* the agent takes the direction the other one is heading in
Agent_interact_with_agent_aligned(a, other_agent) ==
    IF ~a.is_moving \/ ~IsVector2D(other_agent.velocity) THEN Returned(a)
    ELSE IF a.position = other_agent.position THEN Returned(a)
    ELSE Returned([a EXCEPT !.velocity =
                      mul(normalize(other_agent.velocity), magnitude(a.velocity))])
Agent_interact_with_agent(a, other_agent) ==
    IF ~a.is_moving THEN Returned(a)
    ELSE LET direction == sub(a.position, other_agent.position)
         IN IF Overflows(direction) THEN Raised(a, "OverflowError")
            ELSE IF magnitude(direction) = 0 THEN Returned(a)
            ELSE LET tangent == normalize(rotate(direction, HalfPi.cos, HalfPi.sin))
                     speed == magnitude(a.velocity)
                 IN IF speed > 0
                    THEN Returned([a EXCEPT !.velocity = mul(tangent, speed)])
                    ELSE Returned(a)

\* a slip: the tangent is never flipped
AlignedTangent_never_flipped(velocity, tangent) == tangent

\* the tangent, kept consistent with the current motion
AlignedTangent(velocity, tangent) ==
    IF dot(velocity, tangent) < 0 THEN mul(tangent, -Unit) ELSE tangent

\* a slip: the agent is pushed away from the wall but keeps its heading
Agent_interact_with_boundary_push_only(a, b) ==
    IF ~a.is_moving THEN Returned(a)
    ELSE IF is_near_boundary(b, a.position, a.radius + buffer)
         THEN Returned([a EXCEPT !.position =
                           add(a.position,
                               mul(get_normal_at_point(b, a.position), Push))])
         ELSE Returned(a)
Agent_interact_with_boundary(a, b) ==
    IF ~a.is_moving THEN Returned(a)
    ELSE IF is_near_boundary(b, a.position, a.radius + buffer)
         THEN LET tangent == AlignedTangent(a.velocity,
                                            get_tangent_at_point(b, a.position))
                  speed == magnitude(a.velocity)
                  normal == get_normal_at_point(b, a.position)
              IN Returned([a EXCEPT !.velocity = mul(tangent, speed),
                                    !.position = add(a.position, mul(normal, Push))])
         ELSE Returned(a)

\* ------------------------------------------------------------------------
\* State
\* ------------------------------------------------------------------------
VARIABLES
    agents,              \* Simulation.agents: the sequence of Agent objects
    boundary,            \* Simulation.boundary
    interaction_radius,  \* Simulation.interaction_radius
    time_step,           \* Simulation.time_step
    random_std_dev,      \* Simulation.random_std_dev
    current_time,        \* Simulation.current_time
    raised,              \* the exception that ended the program, or "none"
    calls,               \* the number of calls made so far
    op                   \* the last call: its name, its arguments, the random
                         \* draw it made and which agents were Moving before it

vars == <<agents, boundary, interaction_radius, time_step, random_std_dev,
          current_time, raised, calls, op>>

NoDraw == -1

Call(name, delta_time, std_dev, draw) ==
    [name |-> name, delta_time |-> delta_time, std_dev |-> std_dev,
     draw |-> draw,
     was_moving |-> [i \in 1..Len(agents) |-> agents[i].is_moving]]

NoCall == [name |-> "none", delta_time |-> 0, std_dev |-> 0, draw |-> NoDraw,
           was_moving |-> <<>>]

\* a call that only reads: who asked, its argument and what it returned
Query(name, self, argument, result) ==
    [name |-> name, self |-> self, argument |-> argument, result |-> result]

\* the draw as far as the call made it
DrawMade(a, draw) == IF DrawIsMade(a) THEN draw ELSE NoDraw

Draws == {29, 30}         \* np.random.uniform(0, 1)

\* ------------------------------------------------------------------------
\* The Agent interface: one agent, agents[1], called by a client in any
\* order; agents[2] is the other agent handed to interact_with_agent.  The
\* client passes the same delta_time, kept in time_step, to every call.
\* ------------------------------------------------------------------------
DeltaTimes == {10, 50}
StdDevs == {0, 50}
Positions == { Vector2D(500, 5000), Vector2D(9500, 5000), Vector2D(500, 500),
               Vector2D(5000, 500), Vector2D(5000, 5000), Vector2D(-5000, 5000),
               Vector2D(500, 8000) }
Velocities == { Vector2D(-1000, 0), Vector2D(600, 800) }
Energies == {50, 100, 500}
Decays == {10, 100}
Gains == {1, 50}
OtherPositions == { Vector2D(500, 8000) }

InitSimulation(width, height, radius, step, std_dev) ==
    /\ boundary = Boundary(width, height)
    /\ interaction_radius = radius
    /\ time_step = step
    /\ random_std_dev = std_dev
    /\ current_time = 0
    /\ raised = "none"
    /\ calls = 0
    /\ op = NoCall

\* the agents a client constructs: every energy setting in the middle of the
\* area, and the default setting at every position
Constructed ==
    { Agent__init__(Vector2D(5000, 5000), velocity, energy, DefaultRadius,
                    nrg_decay, nrg_gain) :
        velocity \in Velocities, energy \in Energies, nrg_decay \in Decays,
        nrg_gain \in Gains }
    \cup
    { Agent__init__(position, velocity, 100, DefaultRadius, DefaultDecay,
                    DefaultGain) :
        position \in Positions, velocity \in Velocities }

InitAgent ==
    /\ \E delta_time \in DeltaTimes :
          InitSimulation(10000, 10000, 5000, delta_time, 0)
    /\ \E a \in Constructed, other \in OtherPositions :
          agents = << a, Agent__init__(other, Vector2D(0, 0), 100, DefaultRadius,
                                       DefaultDecay, DefaultGain) >>

Finish(i, result) ==
    /\ calls < MaxCalls
    /\ calls' = calls + 1
    /\ \E returned \in {result} :
          /\ agents' = [agents EXCEPT ![i] = returned.agent]
          /\ raised' = returned.raised
    /\ UNCHANGED <<boundary, interaction_radius, time_step, random_std_dev,
                   current_time>>

\* agent.update(delta_time, std_dev)
Update ==
    /\ raised = "none"
    /\ LET delta_time == time_step IN
         IF agents[1].is_moving
         THEN \E std_dev \in StdDevs :
                 \E noise \in Gauss(std_dev) :
                     /\ Finish(1, Agent_update(agents[1], delta_time, std_dev,
                                               noise, NoDraw,
                                               [cos |-> Unit, sin |-> 0]))
                     /\ op' = Call("update", delta_time, std_dev, NoDraw)
         ELSE \E draw \in Draws, angle \in Angles :
                /\ Finish(1, Agent_update(agents[1], delta_time, 0,
                                          Vector2D(0, 0), draw, angle))
                /\ op' = Call("update", delta_time, 0,
                              DrawMade(agents[1], draw))

\* agent.energy_update(delta_time)
EnergyUpdate ==
    /\ raised = "none"
    /\ \E draw \in Draws, angle \in Angles :
         /\ Finish(1, Agent_energy_update(agents[1], time_step, draw, angle))
         /\ op' = Call("energy_update", time_step, 0,
                       DrawMade(agents[1], draw))

\* agent.interact_with_agent(other_agent)
InteractWithAgent ==
    /\ raised = "none"
    /\ Finish(1, Agent_interact_with_agent(agents[1], agents[2]))
    /\ op' = Call("interact_with_agent", 0, 0, NoDraw)

\* agent.interact_with_boundary(boundary)
InteractWithBoundary ==
    /\ raised = "none"
    /\ Finish(1, Agent_interact_with_boundary(agents[1], boundary))
    /\ op' = Call("interact_with_boundary", 0, 0, NoDraw)

NextAgent ==
    \/ Update
    \/ EnergyUpdate
    \/ InteractWithAgent
    \/ InteractWithBoundary

SpecAgent == InitAgent /\ [][NextAgent]_vars

\* ------------------------------------------------------------------------
\* simulation.py
\* ------------------------------------------------------------------------
\* the agents and the exception, if any, while a method of Simulation runs
Running(ags) == [agents |-> ags, raised |-> "none"]

\* one method call on agent i, unless an exception is already on its way up
Then(st, i, result) ==
    [agents |-> [st.agents EXCEPT ![i] = result.agent], raised |-> result.raised]

\* "for agent in self.agents: if agent.can_move(): agent.update(...)",
\* from agent i on; noises[i] is the noise agent i draws
\* draws[i] and angles[i] are what the random source holds for agent i
RECURSIVE UpdateAgents(_, _, _, _, _, _, _)
UpdateAgents(st, i, delta_time, std_dev, noises, draws, angles) ==
    IF i > Len(st.agents) \/ st.raised # "none" THEN st
    ELSE IF can_move(st.agents[i])
         THEN UpdateAgents(Then(st, i, Agent_update(st.agents[i], delta_time,
                                                    std_dev, noises[i], draws[i],
                                                    angles[i])),
                           i + 1, delta_time, std_dev, noises, draws, angles)
         ELSE UpdateAgents(st, i + 1, delta_time, std_dev, noises, draws, angles)

\* a slip: only the first agent of a pair reacts
InteractPair_first_only(st, i, j, radius) ==
    LET agent1 == st.agents[i]
        agent2 == st.agents[j]
    IN IF ~can_move(agent1) /\ ~can_move(agent2) THEN st
       ELSE IF Overflows(sub(agent1.position, agent2.position))
            THEN [st EXCEPT !.raised = "OverflowError"]
       ELSE IF detect_collision(agent1, agent2, radius) /\ can_move(agent1)
            THEN Then(st, i, Agent_interact_with_agent(agent1, agent2))
       ELSE st
\* the body of the pair loop for agent1 = agents[i], agent2 = agents[j]
InteractPair(st, i, j, radius) ==
    LET agent1 == st.agents[i]
        agent2 == st.agents[j]
    IN IF ~can_move(agent1) /\ ~can_move(agent2) THEN st
       ELSE IF Overflows(sub(agent1.position, agent2.position))
            THEN [st EXCEPT !.raised = "OverflowError"]
       ELSE IF detect_collision(agent1, agent2, radius)
            THEN LET st1 == IF can_move(agent1)
                            THEN Then(st, i, Agent_interact_with_agent(agent1, agent2))
                            ELSE st
                 IN IF st1.raised = "none" /\ can_move(agent2)
                    THEN Then(st1, j, Agent_interact_with_agent(agent2, st1.agents[i]))
                    ELSE st1
       ELSE st

\* the pair loop from the pair (i, j) on
RECURSIVE check_interactions_from(_, _, _, _)
check_interactions_from(st, i, j, radius) ==
    IF i > Len(st.agents) \/ st.raised # "none" THEN st
    ELSE IF j > Len(st.agents) THEN check_interactions_from(st, i + 1, i + 2, radius)
    ELSE check_interactions_from(InteractPair(st, i, j, radius), i, j + 1, radius)

check_interactions(st, radius) == check_interactions_from(st, 1, 2, radius)

RECURSIVE check_boundary_collisions_from(_, _, _)
check_boundary_collisions_from(st, i, b) ==
    IF i > Len(st.agents) \/ st.raised # "none" THEN st
    ELSE IF can_move(st.agents[i])
         THEN check_boundary_collisions_from(
                  Then(st, i, Agent_interact_with_boundary(st.agents[i], b)), i + 1, b)
         ELSE check_boundary_collisions_from(st, i + 1, b)

check_boundary_collisions(st, b) == check_boundary_collisions_from(st, 1, b)

\* a slip: the walls are handled before the pairs
Simulation_update_walls_first(ags, b, radius, delta_time, std_dev, noises, draws, angles) ==
    check_interactions(
        check_boundary_collisions(
            UpdateAgents(Running(ags), 1, delta_time, std_dev, noises, draws,
                         angles),
            b),
        radius)
\* Simulation.update up to the time advance
Simulation_update(ags, b, radius, delta_time, std_dev, noises, draws, angles) ==
    check_boundary_collisions(
        check_interactions(
            UpdateAgents(Running(ags), 1, delta_time, std_dev, noises, draws,
                         angles),
            radius),
        b)

\* "for step in range(num_steps): self.update()" from the state r on;
\* r.steps counts the calls of update, the one that raised included
RECURSIVE run_loop(_, _, _, _, _, _)
run_loop(r, num_steps, b, radius, delta_time, std_dev) ==
    IF r.steps = num_steps \/ r.raised # "none" THEN r
    ELSE LET none == [i \in 1..Len(r.agents) |-> NoDraw]
             noises == [i \in 1..Len(r.agents) |-> Vector2D(0, 0)]
             angles == [i \in 1..Len(r.agents) |-> [cos |-> Unit, sin |-> 0]]
             st == Simulation_update(r.agents, b, radius, delta_time, std_dev,
                                     noises, none, angles)
         IN run_loop([agents |-> st.agents,
                      raised |-> st.raised,
                      current_time |-> IF st.raised = "none"
                                       THEN r.current_time + delta_time
                                       ELSE r.current_time,
                      steps |-> r.steps + 1],
                     num_steps, b, radius, delta_time, std_dev)

\* print_statistics takes min(energies), which raises for an empty list
print_statistics(r) ==
    IF Len(r.agents) = 0 THEN [r EXCEPT !.raised = "ValueError"] ELSE r

\* int(duration / self.time_step)
num_steps_of(duration, delta_time) == Div(duration, delta_time) \div Unit

\* Simulation.run(duration) without noise
Simulation_run(ags, time, duration, b, radius, delta_time, std_dev) ==
    LET r == run_loop([agents |-> ags, raised |-> "none", current_time |-> time,
                       steps |-> 0],
                      num_steps_of(duration, delta_time), b, radius, delta_time,
                      std_dev)
    IN IF r.raised # "none" THEN r ELSE print_statistics(r)

\* a slip: only the agents that can move are reported
get_agent_positions_of_moving(ags) ==
    LET moving == SelectSeq(ags, can_move)
    IN [i \in 1..Len(moving) |-> <<moving[i].position.x, moving[i].position.y>>]
get_agent_positions(ags) ==
    [i \in 1..Len(ags) |-> <<ags[i].position.x, ags[i].position.y>>]

\* get_agent_states reads velocity.x and velocity.y of every agent
get_agent_states_raises(ags) ==
    \E i \in 1..Len(ags) : ~IsVector2D(ags[i].velocity)

\* ------------------------------------------------------------------------
\* The Simulation: constructed, initialized once, then stepped
\* ------------------------------------------------------------------------
AgentCounts == {0, 1, 2}
margin == 2000              \* "margin = 20"
SimStdDevs == {0, 50}
\* random.uniform(lo, hi): the values drawn
Uniform(lo, hi) == {lo, (lo + hi) \div 2}
StartPositions(b) ==
    { Vector2D(x, b.height \div 2) : x \in Uniform(margin, b.width - margin) }
EnergyRanges == { <<50, 150>>, <<500, 2000>> }
SpeedRange == <<100, 900>>

InitSim ==
    /\ \E std_dev \in SimStdDevs :
          InitSimulation(10000, 10000, 5000, 10, std_dev)
    /\ agents = <<>>

\* the agents initialize_agents may create
Created(energy_range, speed_range) ==
    { Agent__init__(position,
                    Vector2D(Mul(angle.cos, speed), Mul(angle.sin, speed)),
                    energy, DefaultRadius, DefaultDecay, DefaultGain) :
        position \in StartPositions(boundary), angle \in Angles,
        speed \in Uniform(speed_range[1], speed_range[2]),
        energy \in Uniform(energy_range[1], energy_range[2]) }

\* sim.initialize_agents(num_agents, energy_range, speed_range)
InitializeAgents ==
    /\ raised = "none"
    /\ op.name = "none"
    /\ \E num_agents \in AgentCounts, energy_range \in EnergyRanges :
         \E created \in [1..num_agents -> Created(energy_range, SpeedRange)] :
            agents' = created
    /\ op' = Call("initialize_agents", 0, 0, NoDraw)
    /\ UNCHANGED <<boundary, interaction_radius, time_step, random_std_dev,
                   current_time, raised, calls>>

\* sim.update(); an exception leaves the step before the time advance.
\* draws[i] is the value np.random.uniform holds for agent i; op records it
\* for the agents whose regeneration would reach max_energy.
SimUpdate ==
    /\ raised = "none"
    /\ op.name # "none"
    /\ calls < MaxSteps
    /\ \E noises \in [1..Len(agents) -> Gauss(random_std_dev)],
          draws \in [1..Len(agents) -> Draws] :
         \E st \in { Simulation_update(agents, boundary, interaction_radius,
                                       time_step, random_std_dev, noises, draws,
                                       [i \in 1..Len(agents) |->
                                           [cos |-> 0, sin |-> Unit]]) } :
            /\ agents' = st.agents
            /\ raised' = st.raised
            /\ current_time' = IF st.raised = "none"
                               THEN current_time + time_step
                               ELSE current_time
            /\ op' = Call("update", time_step, random_std_dev,
                          [i \in 1..Len(agents) |-> DrawMade(agents[i], draws[i])])
    /\ calls' = calls + 1
    /\ UNCHANGED <<boundary, interaction_radius, time_step, random_std_dev>>

\* sim.get_agent_states()
GetAgentStates ==
    /\ raised = "none"
    /\ op.name # "none"
    /\ raised' = IF get_agent_states_raises(agents) THEN "AttributeError"
                                                    ELSE "none"
    /\ op' = Call("get_agent_states", 0, 0, NoDraw)
    /\ UNCHANGED <<agents, boundary, interaction_radius, time_step,
                   random_std_dev, current_time, calls>>

NextSim ==
    \/ InitializeAgents
    \/ SimUpdate
    \/ GetAgentStates

SpecSim == InitSim /\ [][NextSim]_vars

\* ------------------------------------------------------------------------
\* One agent on its own, updated without noise for as long as it is Moving:
\* "while agent.is_moving: agent.update(delta_time)"
\* ------------------------------------------------------------------------
DecayVelocities == { Vector2D(-1000, 0), Vector2D(600, 800), Vector2D(3000, 0) }
DecayEnergies == {50, 100, 500, 2000}

InitDecay ==
    /\ \E delta_time \in DeltaTimes :
          InitSimulation(10000, 10000, 5000, delta_time, 0)
    /\ \E velocity \in DecayVelocities, energy \in DecayEnergies,
          nrg_decay \in Decays :
          agents = << Agent__init__(Vector2D(5000, 5000), velocity, energy,
                                    DefaultRadius, nrg_decay, DefaultGain) >>

DecayUpdate ==
    /\ raised = "none"
    /\ agents[1].is_moving
    /\ \E result \in { Agent_update(agents[1], time_step, 0, Vector2D(0, 0),
                                      NoDraw, [cos |-> Unit, sin |-> 0]) } :
          /\ agents' = <<result.agent>>
          /\ raised' = result.raised
    /\ calls' = calls + 1
    /\ op' = Call("update", time_step, 0, NoDraw)
    /\ UNCHANGED <<boundary, interaction_radius, time_step, random_std_dev,
                   current_time>>

NextDecay == DecayUpdate

\* the loop keeps running while its condition holds
SpecDecay == InitDecay /\ [][NextDecay]_vars /\ WF_vars(DecayUpdate)

\* ------------------------------------------------------------------------
\* Three agents close to each other, without noise: the pair scan has
\* agents that are in two colliding pairs.  The client steps the simulation
\* and calls check_interactions on its own.
\* ------------------------------------------------------------------------
\* the positions drawn for the first, the second and the third agent
ScanPositions ==
    << { Vector2D(2000, 5000), Vector2D(5000, 5000) },
       { Vector2D(5000, 5000) },
       { Vector2D(5000, 2000), Vector2D(5000, 5000) } >>
ScanSpeeds == {100, 900}
ScanCreated(i) ==
    { Agent__init__(position,
                    Vector2D(Mul(angle.cos, speed), Mul(angle.sin, speed)),
                    100, DefaultRadius, DefaultDecay, DefaultGain) :
        position \in ScanPositions[i], angle \in Angles, speed \in ScanSpeeds }

InitScan ==
    /\ InitSimulation(10000, 10000, 4000, 10, 0)
    /\ agents = <<>>

\* sim.initialize_agents(3, energy_range=(1.0, 1.0))
InitializeThreeAgents ==
    /\ raised = "none"
    /\ op.name = "none"
    /\ \E first \in ScanCreated(1), second \in ScanCreated(2),
          third \in ScanCreated(3) :
          agents' = <<first, second, third>>
    /\ op' = Call("initialize_agents", 0, 0, NoDraw)
    /\ UNCHANGED <<boundary, interaction_radius, time_step, random_std_dev,
                   current_time, raised, calls>>

\* sim.check_interactions()
CheckInteractions ==
    /\ raised = "none"
    /\ op.name # "none"
    /\ calls < MaxSteps
    /\ \E st \in { check_interactions(Running(agents), interaction_radius) } :
          /\ agents' = st.agents
          /\ raised' = st.raised
    /\ calls' = calls + 1
    /\ op' = Call("check_interactions", 0, 0, NoDraw)
    /\ UNCHANGED <<boundary, interaction_radius, time_step, random_std_dev,
                   current_time>>

NextScan ==
    \/ InitializeThreeAgents
    \/ SimUpdate
    \/ CheckInteractions

SpecScan == InitScan /\ [][NextScan]_vars

\* ------------------------------------------------------------------------
\* The Simulation with agents drawn anywhere initialize_agents may put them,
\* the corners of the margin included, heading in any direction, stepped
\* without noise with a time step of 0.1 or 1.0; initialize_agents may be
\* called again and then replaces the agents
\* ------------------------------------------------------------------------
WallTimeSteps == {10, 100}
WallCounts == {0, 1, 2}
WallAngles == { [cos |-> -Unit, sin |-> 0], [cos |-> 0, sin |-> -Unit],
                [cos |-> 60, sin |-> 80] }
WallEnergyRange == <<50, 150>>
WallSpeedRange == <<1000, 5000>>
\* the positions drawn for the first and for the second agent
WallPositions(b) ==
    << { Vector2D(x, y) : x \in Uniform(margin, b.width - margin) \cup {b.width - margin},
                          y \in Uniform(margin, b.height - margin) \cup {b.height - margin} },
       { Vector2D(b.width \div 2, b.height \div 2) } >>
WallCreated(i, energy_range, speed_range) ==
    { Agent__init__(position,
                    Vector2D(Mul(angle.cos, speed), Mul(angle.sin, speed)),
                    energy, DefaultRadius, DefaultDecay, DefaultGain) :
        position \in WallPositions(boundary)[i],
        angle \in IF i = 1 THEN WallAngles ELSE { [cos |-> 0, sin |-> Unit] },
        speed \in IF i = 1 THEN Uniform(speed_range[1], speed_range[2])
                            ELSE { speed_range[1] },
        energy \in IF i = 1 THEN Uniform(energy_range[1], energy_range[2])
                             ELSE { energy_range[1] } }

InitWall ==
    /\ \E step \in WallTimeSteps : InitSimulation(10000, 10000, 5000, step, 0)
    /\ agents = <<>>

\* a slip: the new agents are appended to the ones already there
InitializeAgentsAgain_appending ==
    /\ raised = "none"
    /\ \E num_agents \in WallCounts :
         \E first \in IF num_agents >= 1
                       THEN WallCreated(1, WallEnergyRange, WallSpeedRange)
                       ELSE {IntZero},
            second \in IF num_agents >= 2
                        THEN WallCreated(2, WallEnergyRange, WallSpeedRange)
                        ELSE {IntZero} :
            /\ agents' = agents \o SubSeq(<<first, second>>, 1, num_agents)
            /\ op' = [name |-> "initialize_agents", num_agents |-> num_agents,
                      delta_time |-> 0, std_dev |-> 0, draw |-> NoDraw,
                      was_moving |-> <<>>]
    /\ UNCHANGED <<boundary, interaction_radius, time_step, random_std_dev,
                   current_time, raised, calls>>
\* sim.initialize_agents(num_agents, energy_range=(0.5, 1.5),
\* speed_range=(10.0, 50.0))
InitializeAgentsAgain ==
    /\ raised = "none"
    /\ \E num_agents \in WallCounts :
         \E first \in IF num_agents >= 1
                       THEN WallCreated(1, WallEnergyRange, WallSpeedRange)
                       ELSE {IntZero},
            second \in IF num_agents >= 2
                        THEN WallCreated(2, WallEnergyRange, WallSpeedRange)
                        ELSE {IntZero} :
            /\ agents' = SubSeq(<<first, second>>, 1, num_agents)
            /\ op' = [name |-> "initialize_agents", num_agents |-> num_agents,
                      delta_time |-> 0, std_dev |-> 0, draw |-> NoDraw,
                      was_moving |-> <<>>]
    /\ UNCHANGED <<boundary, interaction_radius, time_step, random_std_dev,
                   current_time, raised, calls>>

\* "def initialize_agents(self, num_agents, energy_range, speed_range)": a
\* call with any other keyword raises TypeError before the body runs
initialize_agents_parameters == {"num_agents", "energy_range", "speed_range"}
SuppliedGains == {1, 5}

\* sim.initialize_agents(num_agents=..., energy_range=..., speed_range=...,
\* nrg_gain=...), as main.py and run_visual.py call it
InitializeAgentsWithGain ==
    /\ raised = "none"
    /\ "nrg_gain" \notin initialize_agents_parameters
    /\ \E num_agents \in WallCounts, nrg_gain \in SuppliedGains :
          op' = [name |-> "initialize_agents", num_agents |-> num_agents,
                 nrg_gain |-> nrg_gain, delta_time |-> 0, std_dev |-> 0,
                 draw |-> NoDraw, was_moving |-> <<>>]
    /\ raised' = "TypeError"
    /\ UNCHANGED <<agents, boundary, interaction_radius, time_step,
                   random_std_dev, current_time, calls>>

NextWall ==
    \/ InitializeAgentsAgain
    \/ InitializeAgentsWithGain
    \/ SimUpdate

SpecWall == InitWall /\ [][NextWall]_vars

\* ------------------------------------------------------------------------
\* The Simulation run for a duration, without noise: initialized once, then
\* run, with the positions read in between
\* ------------------------------------------------------------------------
Durations == {5, 10, 25, 30}

InitRun ==
    /\ InitSimulation(10000, 10000, 5000, 10, 0)
    /\ agents = <<>>

\* sim.run(duration)
Run ==
    /\ raised = "none"
    /\ op.name # "none"
    /\ \E duration \in Durations :
         /\ calls + num_steps_of(duration, time_step) <= MaxSteps
         /\ \E r \in { Simulation_run(agents, current_time, duration, boundary,
                                      interaction_radius, time_step,
                                      random_std_dev) } :
            /\ agents' = r.agents
            /\ raised' = r.raised
            /\ current_time' = r.current_time
            /\ calls' = calls + r.steps
            /\ op' = [name |-> "run", duration |-> duration]
    /\ UNCHANGED <<boundary, interaction_radius, time_step, random_std_dev>>

\* sim.get_agent_positions()
GetAgentPositions ==
    /\ raised = "none"
    /\ op.name # "none"
    /\ op' = Query("get_agent_positions", 0, 0, get_agent_positions(agents))
    /\ UNCHANGED <<agents, boundary, interaction_radius, time_step,
                   random_std_dev, current_time, raised, calls>>

NextRun ==
    \/ InitializeAgents
    \/ Run
    \/ GetAgentPositions

SpecRun == InitRun /\ [][NextRun]_vars

\* ------------------------------------------------------------------------
\* The simpler Agent (src/agent.py): it stops for good once it has moved for
\* as long as its energy says.  One such agent, agents[1], is called by a
\* client in any order; agents[2] is the other agent handed to
\* interact_with_agent.
\* ------------------------------------------------------------------------
SimpleAgent__init__(position, velocity, energy, agent_radius) ==
    [position |-> position,
     velocity |-> velocity,
     energy |-> energy,
     radius |-> agent_radius,
     is_moving |-> TRUE,
     movement_time |-> 0,
     base_speed |-> magnitude(velocity)]

\* a slip: the agent stops only when movement_time exceeds the energy
SimpleAgent_stops_late(movement_time, energy) == movement_time > energy
\* movement_time >= energy
SimpleAgent_stops(movement_time, energy) == movement_time >= energy

SimpleAgent_update(a, delta_time, std_dev, noise) ==
    IF ~a.is_moving THEN Returned(a)
    ELSE LET moved == [a EXCEPT
                          !.position = IntegratedPosition(a, delta_time, std_dev, noise),
                          !.movement_time = a.movement_time + delta_time]
         IN IF SimpleAgent_stops(moved.movement_time, moved.energy)
            THEN Returned([moved EXCEPT !.is_moving = FALSE,
                                        !.velocity = Vector2D(0, 0)])
            ELSE Returned(moved)

SimpleAgent_interact_with_agent(a, other_agent) ==
    IF ~a.is_moving THEN Returned(a)
    ELSE LET direction == sub(a.position, other_agent.position)
         IN IF Overflows(direction) THEN Raised(a, "OverflowError")
            ELSE IF magnitude(direction) = 0 THEN Returned(a)
            ELSE LET tangent == normalize(rotate(direction, HalfPi.cos, HalfPi.sin))
                     speed == magnitude(a.velocity)
                 IN IF speed > 0
                    THEN Returned([a EXCEPT !.velocity = mul(tangent, speed)])
                    ELSE Returned(a)

SimpleAgent_interact_with_boundary(a, b) ==
    IF ~a.is_moving THEN Returned(a)
    ELSE IF is_near_boundary(b, a.position, a.radius)
         THEN LET tangent == get_tangent_at_point(b, a.position)
                  speed == magnitude(a.velocity)
                  normal == get_normal_at_point(b, a.position)
                  turned == IF speed > 0
                            THEN [a EXCEPT !.velocity = mul(tangent, speed)]
                            ELSE a
              IN Returned([turned EXCEPT
                              !.position = add(a.position, mul(normal, Push))])
         ELSE Returned(a)

SimplePositions == { Vector2D(400, 5000), Vector2D(5000, 5000), Vector2D(5000, 9800) }
SimpleEnergies == {20, 25, 100}

InitSimple ==
    /\ \E delta_time \in DeltaTimes :
          InitSimulation(10000, 10000, 5000, delta_time, 0)
    /\ \E position \in SimplePositions, velocity \in Velocities,
          energy \in SimpleEnergies, other \in OtherPositions :
          agents = << SimpleAgent__init__(position, velocity, energy, DefaultRadius),
                      SimpleAgent__init__(other, Vector2D(0, 0), 100, DefaultRadius) >>

\* agent.update(delta_time, std_dev)
SimpleUpdate ==
    /\ raised = "none"
    /\ \E std_dev \in StdDevs :
          \E noise \in Gauss(std_dev) :
             /\ Finish(1, SimpleAgent_update(agents[1], time_step, std_dev, noise))
             /\ op' = Call("update", time_step, std_dev, NoDraw)

\* agent.interact_with_agent(other_agent)
SimpleInteractWithAgent ==
    /\ raised = "none"
    /\ Finish(1, SimpleAgent_interact_with_agent(agents[1], agents[2]))
    /\ op' = Call("interact_with_agent", 0, 0, NoDraw)

\* agent.interact_with_boundary(boundary)
SimpleInteractWithBoundary ==
    /\ raised = "none"
    /\ Finish(1, SimpleAgent_interact_with_boundary(agents[1], boundary))
    /\ op' = Call("interact_with_boundary", 0, 0, NoDraw)

NextSimple ==
    \/ SimpleUpdate
    \/ SimpleInteractWithAgent
    \/ SimpleInteractWithBoundary

SpecSimple == InitSimple /\ [][NextSimple]_vars

\* ------------------------------------------------------------------------
\* The queries: detect_collision between agents[1] and agents[2], either
\* one asking, and the Boundary's methods at the position of agents[1].  A
\* query changes nothing; op holds its argument and what it returned.
\* ------------------------------------------------------------------------
Coordinates == {-5000, 0, 500, 2000, 5000, 8000, 9500, 10000, 15000}
QueryPositions == { Vector2D(x, y) : x \in Coordinates, y \in Coordinates }
QueryOthers == { Vector2D(5000, 5000), Vector2D(2000, 1000) }
Heights == {6000, 10000}
Radii == {0, 2000, 5000}
Thresholds == {0, 2000, 6000}

InitQuery ==
    /\ \E height \in Heights : InitSimulation(10000, height, 5000, 10, 0)
    /\ \E position \in QueryPositions, other \in QueryOthers :
          agents = << Agent__init__(position, Vector2D(0, 0), 100, DefaultRadius,
                                    DefaultDecay, DefaultGain),
                      Agent__init__(other, Vector2D(0, 0), 100, DefaultRadius,
                                    DefaultDecay, DefaultGain) >>

\* agents[self].detect_collision(the other one, radius)
DetectCollision ==
    /\ raised = "none"
    /\ \E self \in {1, 2}, radius \in Radii :
          op' = Query("detect_collision", self, radius,
                      detect_collision(agents[self], agents[3 - self], radius))
    /\ UNCHANGED <<agents, boundary, interaction_radius, time_step,
                   random_std_dev, current_time, raised, calls>>

\* boundary.is_near_boundary(position, threshold)
IsNearBoundary ==
    /\ raised = "none"
    /\ \E threshold \in Thresholds :
          op' = Query("is_near_boundary", 1, threshold,
                      is_near_boundary(boundary, agents[1].position, threshold))
    /\ UNCHANGED <<agents, boundary, interaction_radius, time_step,
                   random_std_dev, current_time, raised, calls>>

\* boundary.get_tangent_at_point(position)
GetTangentAtPoint ==
    /\ raised = "none"
    /\ op' = Query("get_tangent_at_point", 1, 0,
                   get_tangent_at_point(boundary, agents[1].position))
    /\ UNCHANGED <<agents, boundary, interaction_radius, time_step,
                   random_std_dev, current_time, raised, calls>>

\* boundary.get_normal_at_point(position)
GetNormalAtPoint ==
    /\ raised = "none"
    /\ op' = Query("get_normal_at_point", 1, 0,
                   get_normal_at_point(boundary, agents[1].position))
    /\ UNCHANGED <<agents, boundary, interaction_radius, time_step,
                   random_std_dev, current_time, raised, calls>>

\* boundary.is_within_bounds(position)
IsWithinBounds ==
    /\ raised = "none"
    /\ op' = Query("is_within_bounds", 1, 0,
                   is_within_bounds(boundary, agents[1].position))
    /\ UNCHANGED <<agents, boundary, interaction_radius, time_step,
                   random_std_dev, current_time, raised, calls>>

\* boundary.clamp_position(position), of the agent's position or of the
\* position the last clamp_position returned
ClampPosition ==
    /\ raised = "none"
    /\ \E position \in {agents[1].position}
                        \cup (IF op.name = "clamp_position" THEN {op.result}
                                                            ELSE {}) :
          op' = Query("clamp_position", 1, position,
                      clamp_position(boundary, position))
    /\ UNCHANGED <<agents, boundary, interaction_radius, time_step,
                   random_std_dev, current_time, raised, calls>>

\* the vectors normalized: the zero vector, short ones, long ones
Components == {-40000, -400, 0, 1, 300}
Operands == { Vector2D(x, y) : x \in Components, y \in Components }

\* v.normalize(); op holds the operand before and after the call and the
\* vector returned
Normalize ==
    /\ raised = "none"
    /\ \E v \in Operands :
          \E returned \in { Vector2D_normalize(v) } :
             /\ op' = Query("normalize", returned.self, v, returned.result)
             /\ raised' = returned.raised
    /\ UNCHANGED <<agents, boundary, interaction_radius, time_step,
                   random_std_dev, current_time, calls>>

NextQuery ==
    \/ Normalize
    \/ DetectCollision
    \/ IsNearBoundary
    \/ GetTangentAtPoint
    \/ GetNormalAtPoint
    \/ IsWithinBounds
    \/ ClampPosition

SpecQuery == InitQuery /\ [][NextQuery]_vars

\* ------------------------------------------------------------------------
\* Properties
\* ------------------------------------------------------------------------
Indices == 1..Len(agents)
SquaredLength(v) == v.x * v.x + v.y * v.y
EnergyCalls == {"update", "energy_update"}

\* C1: with energy, nrg_decay, nrg_gain >= 0 and delta_time > 0, whatever the
\* client calls, 0 <= energy <= max_energy, and max_energy stays the energy
\* the agent was constructed with.
EnergyInRange ==
    \A i \in Indices :
        0 <= agents[i].energy /\ agents[i].energy <= agents[i].max_energy
MaxEnergyIsInitialEnergy ==
    \A i \in Indices : agents[i].max_energy = agents[i].energy
MaxEnergyKept ==
    \A i \in Indices : agents'[i].max_energy = agents[i].max_energy
C1_EnergyBounded ==
    MaxEnergyIsInitialEnergy /\ []EnergyInRange /\ [][MaxEnergyKept]_vars

\* a Resting agent whose regeneration reached the clamp, after a Moving
\* phase in which its energy decayed
C1_Witness ==
    /\ op.name \in EnergyCalls
    /\ ~op.was_moving[1]
    /\ op.draw # NoDraw
    /\ agents[1].energy = agents[1].max_energy
    /\ agents[1].movement_time > 0

\* C4: an agent goes from Moving to Resting only in energy_update (alone or
\* at the end of update), and exactly when the velocity rescaled by the new
\* energy is shorter than 1.0; no other call stops an agent.
C4_StopsOnlyWhenSlow ==
    [][\A i \in Indices :
         LET v == mul(agents[i].velocity, agents'[i].energy)
         IN /\ (agents[i].is_moving /\ ~agents'[i].is_moving)
                 => /\ op'.name \in EnergyCalls
                    /\ ~Overflows(v)
                    /\ SquaredLength(v) < Unit * Unit
            /\ (agents[i].is_moving /\ agents'[i].is_moving /\ i = 1
                                    /\ op'.name \in EnergyCalls)
                 => (Overflows(v) \/ SquaredLength(v) >= Unit * Unit)]_vars

\* an agent that energy_update has just stopped
C4_Witness ==
    /\ op.name = "energy_update"
    /\ op.was_moving[1]
    /\ ~agents[1].is_moving
    /\ agents[1].velocity = IntZero

\* C5: an agent goes from Resting to Moving only in energy_update (alone or
\* at the end of update), only with energy = max_energy after regeneration
\* and a draw below 0.3.
C5_ResumesOnlyWhenFull ==
    [][\A i \in Indices :
         (~agents[i].is_moving /\ agents'[i].is_moving)
             => /\ op'.name \in EnergyCalls
                /\ agents'[i].energy = agents[i].max_energy
                /\ op'.draw # NoDraw
                /\ 10 * op'.draw < 3 * Unit]_vars

\* an agent that energy_update has just set moving again
C5_Witness ==
    /\ op.name = "energy_update"
    /\ ~op.was_moving[1]
    /\ agents[1].is_moving
    /\ op.draw = 29

\* C8: update on a Resting agent leaves position and movement_time alone;
\* the energy becomes min(energy + nrg_gain * max_energy, max_energy), which
\* is at least the old energy and at most max_energy.
C8_RestingUpdate ==
    [][(op'.name = "update" /\ ~agents[1].is_moving)
         => /\ agents'[1].position = agents[1].position
            /\ agents'[1].movement_time = agents[1].movement_time
            /\ agents'[1].energy >= agents[1].energy
            /\ agents'[1].energy <= agents[1].max_energy
            /\ agents'[1].energy =
                 Min(agents[1].energy
                       + Mul(agents[1].nrg_gain, agents[1].max_energy),
                     agents[1].max_energy)]_vars

\* a Resting agent after an update that regenerated energy and left it Resting
C8_Witness ==
    /\ op.name = "update"
    /\ ~op.was_moving[1]
    /\ ~agents[1].is_moving
    /\ agents[1].energy > 0
    /\ agents[1].energy < agents[1].max_energy

C2_RestingCanResume ==
    [][\A i \in Indices :
         ( /\ op'.name = "update"
           /\ raised' = "none"
           /\ ~agents[i].is_moving
           /\ Min(agents[i].energy + Mul(agents[i].nrg_gain, agents[i].max_energy),
                  agents[i].max_energy) = agents[i].max_energy
           /\ op'.draw[i] # NoDraw
           /\ 10 * op'.draw[i] < 3 * Unit )
         => agents'[i].is_moving]_vars

\* C3: every step applies the energy update once to every agent: a Moving
\* agent's energy decays, a Resting agent's energy becomes
\* min(energy + nrg_gain * max_energy, max_energy).
C3_EnergyUpdatedEveryStep ==
    [][\A i \in Indices :
         (op'.name = "update" /\ raised' = "none")
         => agents'[i].energy =
              IF agents[i].is_moving
              THEN Mul(agents[i].energy,
                       ExpNeg(Mul(agents[i].nrg_decay, time_step)))
              ELSE Min(agents[i].energy
                         + Mul(agents[i].nrg_gain, agents[i].max_energy),
                       agents[i].max_energy)]_vars

\* C6: an agent that starts Moving and is updated again and again with
\* nrg_decay > 0, delta_time > 0 and no noise eventually is Resting.
C6_EventuallyResting == <>(~agents[1].is_moving)

\* C7: without noise and interactions, an update of a Moving agent never
\* increases its speed.
C7_SpeedNeverIncreases ==
    [][(op'.name = "update" /\ agents[1].is_moving /\ agents'[1].is_moving)
         => /\ ~Overflows(agents'[1].velocity)
            /\ SquaredLength(agents'[1].velocity)
                 <= SquaredLength(agents[1].velocity)]_vars

\* C9: every agent's velocity is a vector with x and y components, the zero
\* vector once the agent has stopped, and get_agent_states succeeds.
C9_VelocityIsVector ==
    /\ \A i \in Indices :
         /\ IsVector2D(agents[i].velocity)
         /\ ~agents[i].is_moving => agents[i].velocity = Vector2D(0, 0)
    /\ raised # "AttributeError"

\* C11: interact_with_agent(other) changes nothing when the agent is Resting
\* or the two positions are identical; otherwise it sets the agent's
\* velocity to the unit vector of (position - other.position) turned by +90
\* degrees, times the speed the agent had, so the speed is kept up to the
\* rounding of the unit vector; position, energy, is_moving, movement_time
\* and every field of other stay as they were.
TurnedLeft(v) == Vector2D(-v.y, v.x)
RoundingOf(speed) == (2 * speed) \div Unit + 3
C11_AgentInteraction ==
    [][op'.name = "interact_with_agent"
         => LET a == agents[1]
                other == agents[2]
                after == agents'[1]
            IN /\ raised' = "none"
               /\ agents'[2] = other
               /\ IF ~a.is_moving \/ a.position = other.position
                  THEN after = a
                  ELSE LET speed == magnitude(a.velocity)
                           unit == normalize(TurnedLeft(sub(a.position,
                                                            other.position)))
                       IN /\ after = [a EXCEPT !.velocity =
                                        Vector2D(Mul(unit.x, speed),
                                                 Mul(unit.y, speed))]
                          /\ Abs(magnitude(after.velocity) - speed)
                                <= RoundingOf(speed)]_vars

\* a Moving agent away from the other one after the call: its velocity is
\* at a right angle to the line between them, counter-clockwise
C11_Witness ==
    /\ op.name = "interact_with_agent"
    /\ op.was_moving[1]
    /\ agents[1].position # agents[2].position
    /\ LET direction == sub(agents[1].position, agents[2].position)
           velocity == agents[1].velocity
       IN /\ direction.x * velocity.x + direction.y * velocity.y = 0
          /\ direction.x * velocity.y - direction.y * velocity.x > 0

\* C12: detect_collision(other, radius) is true iff the distance between the
\* two positions is at most radius, equality included (the distance is
\* rounded down to the grid, so it decides up to one grid step); whichever
\* agent asks, the answer is the same; agents at the same position collide
\* for every radius >= 0.
C12_DetectCollision ==
    op.name = "detect_collision"
    => LET a == agents[op.self]
           other == agents[3 - op.self]
           radius == op.argument
           squared == SquaredLength(sub(a.position, other.position))
       IN /\ squared <= radius * radius => op.result
          /\ op.result => squared < (radius + 1) * (radius + 1)
          /\ op.result = detect_collision(other, a, radius)
          /\ a.position = other.position => op.result

\* two agents exactly radius apart, off the axes, collide
C12_Witness ==
    /\ op.name = "detect_collision"
    /\ op.result
    /\ op.argument > 0
    /\ agents[1].position.x # agents[2].position.x
    /\ agents[1].position.y # agents[2].position.y
    /\ SquaredLength(sub(agents[1].position, agents[2].position))
         = op.argument * op.argument

\* C18: at every position, inside, on or outside the rectangle,
\* get_tangent_at_point and get_normal_at_point return unit vectors at a
\* right angle to each other (dot product 0): both take a wall on the same
\* axis, also when distances tie.
Position == agents[1].position
IsUnit(v) == SquaredLength(v) = Unit * Unit
C18_TangentNormalPerpendicular ==
    /\ op.name = "get_tangent_at_point"
       => LET normal == get_normal_at_point(boundary, Position)
          IN /\ IsUnit(op.result) /\ IsUnit(normal)
             /\ op.result.x * normal.x + op.result.y * normal.y = 0
    /\ op.name = "get_normal_at_point"
       => LET tangent == get_tangent_at_point(boundary, Position)
          IN /\ IsUnit(op.result) /\ IsUnit(tangent)
             /\ op.result.x * tangent.x + op.result.y * tangent.y = 0

\* the tangent asked for where a wall along x and a wall along y are equally
\* near and no wall is nearer
C18_Witness ==
    /\ op.name = "get_tangent_at_point"
    /\ \E across \in {Abs(Position.x - boundary.min_x),
                       Abs(Position.x - boundary.max_x)},
          along \in {Abs(Position.y - boundary.min_y),
                      Abs(Position.y - boundary.max_y)} :
          across = along /\ across = min_dist(boundary, Position)

\* C19: get_normal_at_point returns the inward normal of the wall with the
\* smallest absolute per-axis distance, (1,0) for left, (-1,0) for right,
\* (0,1) for bottom, (0,-1) for top, the first in the order left, right,
\* bottom, top when distances tie; get_tangent_at_point returns (0,1) when
\* that wall is left or right and (1,0) otherwise.
Walls == <<"left", "right", "bottom", "top">>
InwardNormal == << Vector2D(Unit, 0), Vector2D(-Unit, 0),
                   Vector2D(0, Unit), Vector2D(0, -Unit) >>
WallDistance ==
    << Abs(Position.x - boundary.min_x), Abs(Position.x - boundary.max_x),
       Abs(Position.y - boundary.min_y), Abs(Position.y - boundary.max_y) >>
\* wall k is the chosen one: none is nearer and none before it is as near
IsNearestWall(k) ==
    /\ \A j \in 1..4 : WallDistance[k] <= WallDistance[j]
    /\ \A j \in 1..(k - 1) : WallDistance[j] # WallDistance[k]
SnapshotReaction(snapshot, current, k, partner) ==
    IF /\ can_move(snapshot[k])
       /\ snapshot[k].position # snapshot[partner].position
       /\ magnitude(snapshot[k].velocity) > 0
    THEN [current EXCEPT ![k].velocity =
             Agent_interact_with_agent(snapshot[k], snapshot[partner]).agent.velocity]
    ELSE current
RECURSIVE SnapshotScan(_, _, _, _, _)
SnapshotScan(snapshot, current, i, j, radius) ==
    IF i > Len(snapshot) THEN current
    ELSE IF j > Len(snapshot) THEN SnapshotScan(snapshot, current, i + 1, i + 2, radius)
    ELSE IF /\ can_move(snapshot[i]) \/ can_move(snapshot[j])
            /\ detect_collision(snapshot[i], snapshot[j], radius)
         THEN SnapshotScan(snapshot,
                           SnapshotReaction(snapshot,
                               SnapshotReaction(snapshot, current, i, j), j, i),
                           i, j + 1, radius)
         ELSE SnapshotScan(snapshot, current, i, j + 1, radius)
SameUpToRounding(v, w) ==
    IF IsVector2D(v) /\ IsVector2D(w)
    THEN /\ Abs(v.x - w.x) <= RoundingOf(magnitude(w))
         /\ Abs(v.y - w.y) <= RoundingOf(magnitude(w))
    ELSE v = w
C13_ScanAsFromSnapshot ==
    [][(op'.name = "check_interactions" /\ raised' = "none")
         => LET expected == SnapshotScan(agents, agents, 1, 2, interaction_radius)
            IN \A i \in Indices :
                 /\ SameUpToRounding(agents'[i].velocity, expected[i].velocity)
                 /\ [agents'[i] EXCEPT !.velocity = agents[i].velocity]
                      = agents[i]]_vars

\* after a scan in which the second agent, Moving, was within the radius
\* of both others and away from them, and so reacted twice
C13_Witness ==
    /\ op.name = "check_interactions"
    /\ Len(agents) = 3
    /\ op.was_moving[2]
    /\ \A k \in {1, 3} :
          /\ agents[k].position # agents[2].position
          /\ detect_collision(agents[2], agents[k], interaction_radius)
    /\ agents[1].position # agents[3].position

\* C14: a step runs, in this order, (a) the update of every agent that can
\* move, (b) the pair scan, (c) the boundary interaction of every agent that
\* can move, (d) the time advance, which a step that raises does not reach;
\* an agent that turns Resting in (a) ends the step where its update put
\* it, with the velocity its stop left, not redirected or nudged by (b), (c).
PhaseUpdate(ags, noises) ==
    [i \in DOMAIN ags |->
        IF ags[i].is_moving
        THEN Agent_update(ags[i], time_step, random_std_dev, noises[i], NoDraw,
                          [cos |-> Unit, sin |-> 0]).agent
        ELSE ags[i]]
PhaseScan(ags) == check_interactions(Running(ags), interaction_radius).agents
PhaseBoundary(ags) ==
    [i \in DOMAIN ags |->
        IF ags[i].is_moving
        THEN Agent_interact_with_boundary(ags[i], boundary).agent
        ELSE ags[i]]
C14_PhasesInOrder ==
    [][op'.name = "update"
         => IF raised' = "none"
            THEN /\ current_time' = current_time + time_step
                 /\ \E noises \in [Indices -> Gauss(random_std_dev)] :
                      /\ agents' = PhaseBoundary(PhaseScan(PhaseUpdate(agents, noises)))
                      /\ \A i \in Indices :
                           (agents[i].is_moving /\ ~agents'[i].is_moving)
                           => /\ agents'[i].position =
                                   IntegratedPosition(agents[i], time_step,
                                                      random_std_dev, noises[i])
                              /\ agents'[i].velocity = IntZero
            ELSE current_time' = current_time]_vars

\* after a step in which an agent stopped within the wall threshold and
\* within the interaction radius of another one, which is still Moving
C14_Witness ==
    /\ op.name = "update"
    /\ raised = "none"
    /\ \E i \in Indices, j \in Indices :
          /\ op.was_moving[i] /\ ~agents[i].is_moving
          /\ agents[j].is_moving
          /\ agents[i].position # agents[j].position
          /\ detect_collision(agents[i], agents[j], interaction_radius)
          /\ is_near_boundary(boundary, agents[i].position,
                              agents[i].radius + buffer)

\* C15: every step advances current_time by exactly time_step, whatever the
\* agents' states and with zero agents too, so current_time grows with
\* every step and is n * time_step after n steps.
C15_TimeAdvancesEveryStep ==
    [][op'.name = "update"
         => /\ current_time' = current_time + time_step
            /\ current_time' > current_time
            /\ current_time' = calls' * time_step]_vars

\* C16: run(duration) with time_step > 0 makes exactly
\* floor(duration / time_step) step calls and then is over, and current_time
\* is then that many time_steps above its value before the call.
C16_RunMakesAllSteps ==
    [][op'.name = "run"
         => LET num_steps == op'.duration \div time_step
            IN /\ calls' = calls + num_steps
               /\ current_time' = current_time + num_steps * time_step]_vars

\* C17: the agent sequence is stable during a run: no step adds, removes or
\* reorders agents, index i is the same agent in every state after
\* initialization (told by what an agent keeps for life: radius, rates,
\* base speed, maximal energy), and get_agent_positions reports the
\* positions in that order.
SameAgent(a, b) ==
    /\ a.radius = b.radius
    /\ a.nrg_decay = b.nrg_decay
    /\ a.nrg_gain = b.nrg_gain
    /\ a.base_speed = b.base_speed
    /\ a.max_energy = b.max_energy
PositionsInOrder ==
    op.name = "get_agent_positions"
    => /\ Len(op.result) = Len(agents)
       /\ \A i \in Indices : /\ op.result[i][1] = agents[i].position.x
                              /\ op.result[i][2] = agents[i].position.y
SequenceKept ==
    op'.name = "run"
    => /\ Len(agents') = Len(agents)
       /\ \A i \in Indices : SameAgent(agents'[i], agents[i])
C17_AgentSequenceStable == []PositionsInOrder /\ [][SequenceKept]_vars

\* the positions of two different agents read after steps were run, the
\* first of them Resting
C17_Witness ==
    /\ op.name = "get_agent_positions"
    /\ calls >= 2
    /\ Len(agents) = 2
    /\ ~SameAgent(agents[1], agents[2])
    /\ ~agents[1].is_moving /\ agents[2].is_moving
    /\ agents[1].position # agents[2].position

\* ------------------------------------------------------------------------
\* C21: is_within_bounds(position) is true exactly when 0 <= x <= width and
\* 0 <= y <= height, the walls included; so it is true for every position
\* strictly inside (margin, dimension - margin) on both axes and false for
\* every position with a coordinate outside [0, dimension].
\* ------------------------------------------------------------------------
InsideRectangle(position) ==
    /\ 0 <= position.x /\ position.x <= boundary.width
    /\ 0 <= position.y /\ position.y <= boundary.height

InsideMargin(position) ==
    /\ margin < position.x /\ position.x < boundary.width - margin
    /\ margin < position.y /\ position.y < boundary.height - margin

OutsideOnSomeAxis(position) ==
    \/ position.x < 0 \/ position.x > boundary.width
    \/ position.y < 0 \/ position.y > boundary.height

OnWall(position) ==
    /\ InsideRectangle(position)
    /\ \/ position.x \in {0, boundary.width}
       \/ position.y \in {0, boundary.height}

C21_WithinBounds ==
    op.name = "is_within_bounds"
    => /\ op.result \in BOOLEAN
       /\ op.result <=> InsideRectangle(Position)
       /\ InsideMargin(Position) => op.result
       /\ OutsideOnSomeAxis(Position) => ~op.result

\* the query answered TRUE for a position on the top wall
C21_Witness ==
    /\ op.name = "is_within_bounds"
    /\ Position.y = boundary.height
    /\ OnWall(Position)
    /\ op.result = TRUE

\* ------------------------------------------------------------------------
\* C22: clamp_position clamps each axis into [min, max]: its result is
\* within bounds, it equals the input exactly when the input is within
\* bounds, and clamping what a clamp returned returns it again.
\* ------------------------------------------------------------------------
ClampedAxis(coordinate, dimension) ==
    IF coordinate < 0 THEN 0
    ELSE IF coordinate > dimension THEN dimension
    ELSE coordinate

C22_Clamp ==
    [][op'.name = "clamp_position"
       => /\ op'.result.x = ClampedAxis(op'.argument.x, boundary.width)
          /\ op'.result.y = ClampedAxis(op'.argument.y, boundary.height)
          /\ InsideRectangle(op'.result)
          /\ (op'.result = op'.argument) <=> InsideRectangle(op'.argument)
          /\ (op.name = "clamp_position" /\ op'.argument = op.result)
                => op'.result = op.result]_vars

\* a position beyond the top wall was clamped onto it, and the clamped
\* position was clamped again
C22_Witness ==
    /\ op.name = "clamp_position"
    /\ op.argument # Position
    /\ Position.y > boundary.height
    /\ op.argument.y = boundary.height
    /\ op.result = op.argument

\* ------------------------------------------------------------------------
\* C23: update on a Moving agent advances the position by the effective
\* velocity (the velocity, plus the noise drawn when std_dev > 0) times
\* delta_time and movement_time by delta_time; the noise goes to a copy, so
\* the stored velocity afterwards is the velocity before the call times the
\* new energy, or zero when the agent stopped, whatever noise was drawn.
\* ------------------------------------------------------------------------
NoisesOf(std_dev) == IF std_dev > 0 THEN Gauss(std_dev) ELSE { Vector2D(0, 0) }

IsZero(v) == v = IntZero \/ v = Vector2D(0, 0)

C23_UpdateOfMoving ==
    [][(op'.name = "update" /\ agents[1].is_moving)
       => LET before == agents[1]
              after == agents'[1]
          IN /\ \E noise \in NoisesOf(op'.std_dev) :
                   after.position =
                       add(before.position,
                           mul(add(before.velocity, noise), op'.delta_time))
             /\ after.movement_time = before.movement_time + op'.delta_time
             /\ IF after.is_moving
                THEN after.velocity = mul(before.velocity, after.energy)
                ELSE IsZero(after.velocity)]_vars

\* a noisy update of a Moving agent that keeps moving, whose velocity the
\* noise would have changed
C23_Witness ==
    /\ op.name = "update"
    /\ op.std_dev > 0
    /\ op.was_moving[1]
    /\ agents[1].is_moving
    /\ raised = "none"
    /\ agents[1].movement_time >= 2 * op.delta_time

\* ------------------------------------------------------------------------
\* C24: the agents start inside the rectangle [0, width] x [0, height], and
\* after every Simulation step every agent's position is still inside it.
\* ------------------------------------------------------------------------
C24_AgentsStayInside ==
    \A i \in Indices : InsideRectangle(agents[i].position)

\* ------------------------------------------------------------------------
\* C25: initialize_agents(count, ...) replaces the agent list with exactly
\* count new agents, each Moving, with movement_time 0, an energy equal to
\* its max_energy and taken from energy_range, and a position within
\* [margin, dimension - margin] on each axis, hence inside the boundary.
\* ------------------------------------------------------------------------
FreshAgent(a) ==
    /\ a.is_moving
    /\ a.movement_time = 0
    /\ a.energy = a.max_energy
    /\ WallEnergyRange[1] <= a.energy /\ a.energy <= WallEnergyRange[2]
    /\ margin <= a.position.x /\ a.position.x <= boundary.width - margin
    /\ margin <= a.position.y /\ a.position.y <= boundary.height - margin
    /\ InsideRectangle(a.position)

C25_InitializeAgents ==
    [][(op'.name = "initialize_agents" /\ "nrg_gain" \notin DOMAIN op')
       => /\ Len(agents') = op'.num_agents
          /\ \A i \in 1..Len(agents') : FreshAgent(agents'[i])]_vars

\* two agents put in the place of agents that had been stepped
C25_Witness ==
    /\ op.name = "initialize_agents"
    /\ "nrg_gain" \notin DOMAIN op
    /\ op.num_agents = 2
    /\ Len(agents) = 2
    /\ current_time > 0

\* ------------------------------------------------------------------------
\* C26: the simpler Agent stops (is_moving false, velocity the zero vector)
\* exactly at the first update after which its cumulative movement_time has
\* reached its energy, and once stopped it never moves again: every later
\* update, interact_with_agent and interact_with_boundary leaves position,
\* velocity, movement_time and is_moving as they are.
\* ------------------------------------------------------------------------
SimpleCalls == {"update", "interact_with_agent", "interact_with_boundary"}

C26_SimpleAgentStopsForGood ==
    [][op'.name \in SimpleCalls
       => LET before == agents[1]
              after == agents'[1]
          IN /\ (before.is_moving /\ op'.name = "update")
                  => /\ after.movement_time = before.movement_time + op'.delta_time
                     /\ after.is_moving <=> after.movement_time < after.energy
                     /\ ~after.is_moving => after.velocity = Vector2D(0, 0)
             /\ (before.is_moving /\ op'.name # "update")
                  => /\ after.is_moving
                     /\ after.movement_time = before.movement_time
             /\ before.is_moving => before.movement_time < before.energy
             /\ ~before.is_moving
                  => /\ after.position = before.position
                     /\ after.velocity = before.velocity
                     /\ after.movement_time = before.movement_time
                     /\ after.is_moving = before.is_moving]_vars

\* a stopped agent right at a wall was handed to interact_with_boundary
C26_Witness ==
    /\ op.name = "interact_with_boundary"
    /\ ~op.was_moving[1]
    /\ ~agents[1].is_moving
    /\ agents[1].movement_time >= agents[1].energy
    /\ is_near_boundary(boundary, agents[1].position, agents[1].radius)

\* ------------------------------------------------------------------------
\* C27: initializing the agents with an energy gain rate, as main.py and
\* run_visual.py do with nrg_gain, succeeds and produces agents whose
\* nrg_gain is the supplied value.
\* ------------------------------------------------------------------------
C27_GainIsConfigurable ==
    (op.name = "initialize_agents" /\ "nrg_gain" \in DOMAIN op)
    => /\ raised = "none"
       /\ Len(agents) = op.num_agents
       /\ \A i \in Indices : agents[i].nrg_gain = op.nrg_gain

\* ------------------------------------------------------------------------
\* C28: normalize never raises; it returns the zero vector exactly when its
\* operand is the zero vector, and otherwise a vector of magnitude 1 (up to
\* rounding) pointing in the operand's direction; the operand is not changed.
\* ------------------------------------------------------------------------
Sign(a) == IF a < 0 THEN -1 ELSE IF a > 0 THEN 1 ELSE 0

SameDirection(v, w) ==
    /\ v.x * w.y - v.y * w.x \in -Abs(v.x) - Abs(v.y) .. Abs(v.x) + Abs(v.y)
    /\ v.x * w.x + v.y * w.y > 0

NormalizedAsSaid ==
    /\ op.self = op.argument
    /\ (op.result = Vector2D(0, 0)) <=> (op.argument = Vector2D(0, 0))
    /\ op.argument # Vector2D(0, 0)
         => /\ Abs(magnitude(op.result) - Unit) <= 2
            /\ SameDirection(op.argument, op.result)

C28_Normalize ==
    op.name = "normalize" => (raised = "none" /\ NormalizedAsSaid)

\* what holds of the calls that return
C28_NormalizeWhenReturning ==
    (op.name = "normalize" /\ raised = "none") => NormalizedAsSaid

\* ------------------------------------------------------------------------
\* C29: when a Resting agent becomes Moving again, its energy is its
\* max_energy and its new velocity has the magnitude base_speed, the speed
\* it was constructed with, whatever speed it had when it stopped and
\* however it was redirected before.
\* ------------------------------------------------------------------------
C29_ResumesAtBaseSpeed ==
    [][/\ calls = 0 => agents[1].base_speed = magnitude(agents[1].velocity)
       /\ agents'[1].base_speed = agents[1].base_speed
       /\ agents'[1].max_energy = agents[1].max_energy
       /\ (~agents[1].is_moving /\ agents'[1].is_moving)
            => /\ agents'[1].energy = agents[1].max_energy
               /\ IsVector2D(agents'[1].velocity)
               /\ Abs(magnitude(agents'[1].velocity) - agents[1].base_speed) <= 1]_vars

\* an agent that was set moving again in an oblique direction
C29_Witness ==
    /\ op.name \in EnergyCalls
    /\ ~op.was_moving[1]
    /\ agents[1].is_moving
    /\ agents[1].energy = agents[1].max_energy
    /\ agents[1].velocity.x # 0
    /\ agents[1].velocity.y # 0

\* ------------------------------------------------------------------------
\* C30: an agent that is Resting at the start of a Simulation step has the
\* same position at the end of the step, also with Moving agents within
\* interaction_radius of it and also near a wall: the pairwise scan and the
\* boundary pass never move or redirect a Resting agent.
\* ------------------------------------------------------------------------
C30_RestingAgentStays ==
    [][op'.name \in {"update", "check_interactions"}
       => \A i \in Indices :
             ~agents[i].is_moving
                => /\ agents'[i].position = agents[i].position
                   /\ agents'[i].velocity = agents[i].velocity]_vars

\* a step was made with a Resting agent near the left wall and a Moving
\* agent within interaction_radius of it
C30_Witness ==
    /\ op.name = "update"
    /\ raised = "none"
    /\ \E i \in Indices, j \in Indices :
          /\ ~op.was_moving[i]
          /\ op.was_moving[j]
          /\ agents[j].is_moving
          /\ is_near_boundary(boundary, agents[i].position,
                              agents[i].radius + buffer)
          /\ SquaredLength(sub(agents[i].position, agents[j].position))
                <= interaction_radius * interaction_radius

\* ------------------------------------------------------------------------
\* C31: after check_interactions, a Moving agent k with at least one agent
\* at another position within interaction_radius heads where
\* (position_k - position_p) turned by +90 degrees points, p being the
\* partner of highest index (the last one met in scan order), at the speed
\* it had, up to rounding; a Moving agent without such a partner keeps its
\* velocity.
\* ------------------------------------------------------------------------
Partners(k) ==
    { p \in Indices \ {k} :
        /\ agents[p].position # agents[k].position
        /\ SquaredLength(sub(agents[k].position, agents[p].position))
              <= interaction_radius * interaction_radius }

LastPartner(k) == CHOOSE p \in Partners(k) : \A q \in Partners(k) : q <= p

C31_LastPartnerDecides ==
    [][(op'.name = "check_interactions" /\ raised' = "none")
         => \A k \in Indices :
               agents[k].is_moving
                  => IF Partners(k) = {}
                     THEN agents'[k].velocity = agents[k].velocity
                     ELSE LET speed == magnitude(agents[k].velocity)
                              unit == normalize(TurnedLeft(
                                          sub(agents[k].position,
                                              agents[LastPartner(k)].position)))
                          IN /\ SameUpToRounding(agents'[k].velocity,
                                                 mul(unit, speed))
                             /\ Abs(magnitude(agents'[k].velocity) - speed)
                                   <= 2 * RoundingOf(speed)]_vars

\* after a scan in which the first agent, Moving, had both others as
\* partners, in two different directions
C31_Witness ==
    /\ op.name = "check_interactions"
    /\ raised = "none"
    /\ op.was_moving[1]
    /\ Partners(1) = {2, 3}
    /\ LET d2 == sub(agents[1].position, agents[2].position)
           d3 == sub(agents[1].position, agents[3].position)
       IN d2.x * d3.y - d2.y * d3.x # 0

\* ------------------------------------------------------------------------
\* C32: at the end of every Simulation step, each Moving agent that was
\* within radius + 15 of a wall when the boundary pass ran has a velocity
\* parallel to the tangent of a nearest wall, so one component is zero,
\* whatever the pair scan made of its velocity earlier in the step.
\* ------------------------------------------------------------------------
\* the distances of a position to the left, right, bottom and top wall
DistanceToWalls(position) ==
    << Abs(position.x), Abs(position.x - boundary.width),
       Abs(position.y), Abs(position.y - boundary.height) >>

NearestWalls(position) ==
    { w \in 1..4 : \A v \in 1..4 :
         DistanceToWalls(position)[w] <= DistanceToWalls(position)[v] }

\* the left and the right wall run along y, the bottom and the top along x
AlongWall(velocity, w) ==
    /\ IsVector2D(velocity)
    /\ IF w \in {1, 2} THEN velocity.x = 0 /\ velocity.y # 0
                        ELSE velocity.y = 0 /\ velocity.x # 0

\* where the update phase of a step without noise puts a Moving agent
AtBoundaryPass(a) == add(a.position, mul(a.velocity, time_step))

C32_WallDecidesLast ==
    [][(op'.name = "update" /\ raised' = "none" /\ random_std_dev = 0)
         => \A k \in Indices :
               (agents[k].is_moving /\ agents'[k].is_moving)
                  => LET at_pass == AtBoundaryPass(agents[k])
                     IN (\E w \in 1..4 : DistanceToWalls(at_pass)[w]
                                             <= agents[k].radius + buffer)
                          => \E w \in NearestWalls(at_pass) :
                                AlongWall(agents'[k].velocity, w)]_vars

\* a step after which the first agent, within reach of a wall and with the
\* second agent, Moving and elsewhere, within interaction_radius, runs
\* along the wall
C32_Witness ==
    /\ op.name = "update"
    /\ raised = "none"
    /\ Len(agents) = 2
    /\ op.was_moving[1] /\ agents[1].is_moving
    /\ op.was_moving[2] /\ agents[2].is_moving
    /\ agents[1].position # agents[2].position
    /\ SquaredLength(sub(agents[1].position, agents[2].position))
          <= interaction_radius * interaction_radius
    /\ \E w \in 1..4 : /\ DistanceToWalls(agents[1].position)[w]
                             <= agents[1].radius + buffer + Push
                        /\ AlongWall(agents[1].velocity, w)

\* ------------------------------------------------------------------------
\* C33: run(duration) ends normally, the final report included, for every
\* number of agents; stated for a Simulation with zero agents, which the
\* claim names and where no agent's arithmetic can be what raises.
\* ------------------------------------------------------------------------
C33_RunEndsNormally ==
    (op.name = "run" /\ Len(agents) = 0) => raised = "none"
====
